---- MODULE Spec2Model ----
(***************************************************************************)
(* ts-fast-check: the incremental check session (TypeScriptFastChecker),   *)
(* its three queries, the CLI exit codes and watch mode.                   *)
(*                                                                         *)
(* Strings of the program (paths, file contents, lines of the version-     *)
(* control status) are sequences of one-character strings, so that the     *)
(* string operations of the code (startsWith, includes, endsWith,          *)
(* substring, trim, path.join, path.relative) are computed, not assumed.   *)
(***************************************************************************)
EXTENDS Integers, Sequences, FiniteSets, TLC

(***************************************************************************)
(* String operations (JavaScript String.prototype)                         *)
(***************************************************************************)
StartsWith(s, p) == Len(p) <= Len(s) /\ SubSeq(s, 1, Len(p)) = p

EndsWith(s, suf) ==
    Len(suf) <= Len(s) /\ SubSeq(s, Len(s) - Len(suf) + 1, Len(s)) = suf

Includes(s, sub) ==
    \E i \in 1..(Len(s) - Len(sub) + 1) : SubSeq(s, i, i + Len(sub) - 1) = sub

\* s.substring(n): the characters from index n (0-based) on
Substring(s, n) == SubSeq(s, n + 1, Len(s))

\* What String.prototype.trim removes: the WhiteSpace and LineTerminator code
\* points of ECMAScript. A string is a sequence of characters; a character
\* that a string of this module cannot hold is written as the name of its
\* code point and is one element of the sequence like any other.
WhiteSpace ==
    {"\t", "U+000B", "\f", " ", " ", "﻿", " ",
     "U+2000", "U+2001", "U+2002", "U+2003", "U+2004", "U+2005", "U+2006",
     "U+2007", "U+2008", "U+2009", "U+200A", "U+202F", "U+205F", "U+3000",
     "\n", "\r", "U+2028", "U+2029"}

RECURSIVE TrimStart(_)
TrimStart(s) ==
    IF s # <<>> /\ Head(s) \in WhiteSpace THEN TrimStart(Tail(s)) ELSE s

RECURSIVE TrimEnd(_)
TrimEnd(s) ==
    IF s # <<>> /\ s[Len(s)] \in WhiteSpace
    THEN TrimEnd(SubSeq(s, 1, Len(s) - 1)) ELSE s

Trim(s) == TrimEnd(TrimStart(s))

\* s.split(sep) for a one-character separator: the pieces between separators
RECURSIVE SplitAcc(_, _, _)
SplitAcc(s, sep, cur) ==
    IF s = <<>> THEN <<cur>>
    ELSE IF Head(s) = sep THEN <<cur>> \o SplitAcc(Tail(s), sep, <<>>)
    ELSE SplitAcc(Tail(s), sep, Append(cur, Head(s)))

Split(s, sep) == SplitAcc(s, sep, <<>>)

RECURSIVE JoinWith(_, _)
JoinWith(parts, sep) ==
    IF parts = <<>> THEN <<>>
    ELSE IF Len(parts) = 1 THEN parts[1]
    ELSE parts[1] \o <<sep>> \o JoinWith(Tail(parts), sep)

SelectSeqNonEmpty(parts) == SelectSeq(parts, LAMBDA x : x # <<>>)

(***************************************************************************)
(* node:path on POSIX                                                      *)
(***************************************************************************)
IsAbsolute(p) == p # <<>> /\ Head(p) = "/"

\* the segments of a path with "." dropped and ".." resolved
RECURSIVE ResolveDots(_, _, _)
ResolveDots(segs, acc, abs) ==
    IF segs = <<>> THEN acc
    ELSE IF Head(segs) = <<".">> THEN ResolveDots(Tail(segs), acc, abs)
    ELSE IF Head(segs) = <<".", ".">>
         THEN IF acc # <<>> /\ acc[Len(acc)] # <<".", ".">>
              THEN ResolveDots(Tail(segs), SubSeq(acc, 1, Len(acc) - 1), abs)
              ELSE IF abs THEN ResolveDots(Tail(segs), acc, abs)
              ELSE ResolveDots(Tail(segs), Append(acc, Head(segs)), abs)
    ELSE ResolveDots(Tail(segs), Append(acc, Head(segs)), abs)

Segments(p) == ResolveDots(SelectSeqNonEmpty(Split(p, "/")), <<>>, IsAbsolute(p))

\* path.normalize: "." for the empty path; a path that resolves to nothing is
\* "/" when absolute and "." otherwise, "./" when it ended with a separator;
\* any other path keeps its trailing separator
PathNormalize(p) ==
    LET abs == IsAbsolute(p)
        body == JoinWith(Segments(p), "/")
        trailingSeparator == p # <<>> /\ p[Len(p)] = "/"
        trail == IF trailingSeparator THEN <<"/">> ELSE <<>>
    IN IF p = <<>> THEN <<".">>
       ELSE IF body = <<>> THEN (IF abs THEN <<"/">> ELSE <<".">> \o trail)
       ELSE IF abs THEN <<"/">> \o body \o trail
       ELSE body \o trail

PathJoin(a, b) ==
    IF a = <<>> THEN PathNormalize(b)
    ELSE IF b = <<>> THEN PathNormalize(a)
    ELSE PathNormalize(a \o <<"/">> \o b)

RECURSIVE CommonLen(_, _)
CommonLen(x, y) ==
    IF x # <<>> /\ y # <<>> /\ Head(x) = Head(y)
    THEN 1 + CommonLen(Tail(x), Tail(y)) ELSE 0

\* path.relative(from, to) for two absolute paths
PathRelative(from, to) ==
    LET f == Segments(from)
        t == Segments(to)
        c == CommonLen(f, t)
        ups == [i \in 1..(Len(f) - c) |-> <<".", ".">>]
    IN JoinWith(ups \o SubSeq(t, c + 1, Len(t)), "/")

(***************************************************************************)
(* The world: the project directory, the files the model follows and the   *)
(* contents they may have                                                  *)
(***************************************************************************)
\* options.projectRoot (process.cwd() in the CLI): "/p"
projectRoot == <<"/", "p">>

\* "/p/a.ts": in the project; it imports "../p2/x"
FileA == <<"/", "p", "/", "a", ".", "t", "s">>
\* "/p/b.tsx": in the project
FileB == <<"/", "p", "/", "b", ".", "t", "s", "x">>
\* "/p/c.ts": on disk under the root, excluded by tsconfig.json ("exclude")
FileC == <<"/", "p", "/", "c", ".", "t", "s">>
\* "/p2/x.ts": in a sibling directory of the root, reached by a.ts's import
FileX == <<"/", "p", "2", "/", "x", ".", "t", "s">>
\* "/p/node_modules/lib.d.ts": the default library (getDefaultLibFileName)
LibFile == <<"/", "p", "/", "n", "o", "d", "e", "_", "m", "o", "d", "u", "l",
             "e", "s", "/", "l", "i", "b", ".", "d", ".", "t", "s">>

\* "/p/r.md": a file of the project that is no source file
FileR == <<"/", "p", "/", "r", ".", "m", "d">>

\* this.configPath, "/p/tsconfig.json": the configuration file, found in the
\* project directory or, when no directory from there up has one, expected
\* there
configPath ==
    <<"/", "p", "/", "t", "s", "c", "o", "n", "f", "i", "g", ".", "j", "s", "o", "n">>

Paths == {FileA, FileB, FileC, FileX, LibFile, FileR, configPath}

\* the paths in the order of compareStringsCaseSensitive
PathOrder == <<FileA, FileB, FileC, LibFile, FileR, configPath, FileX>>

\* the files a test or an editor rewrites; c.ts and the library stay as they are
Writable == {FileA, FileB, FileX}

\* Absent values, of the type of what they stand in for: no text is a
\* one-element sequence that no text equals (a text is made of characters)
NoFile == <<"NoFile">>
Undefined == <<"undefined">>

\* File contents. "e" is well-typed code (an export), "!" a type error,
\* "#" a syntax error, "?" code the compiler warns about, "s" code it has a
\* message for, "\n" a line break.
Empty == <<>>
Good == <<"e">>
Bad == <<"e", "\n", "!", "#">>
Warn == <<"?", "s">>

\* tsconfig.json: present and valid, valid but with conflicting compiler
\* options, absent, or not parsable
ConfigKinds == {"ok", "conflict", "absent", "unparsable"}

\* readConfigFile + parseJsonConfigFileContent yield the file's settings for a
\* readable configuration and the defaults otherwise
ConfigRead(cfg) == cfg \in {"ok", "conflict"}

\* the text of tsconfig.json on disk: "{}" stands for valid settings, "{!}"
\* for settings with conflicting compiler options, "{" for text that is no
\* JSON; no file when the project has none. No write of the model touches
\* the file, so the text agrees with config throughout.
ConfigText(cfg) ==
    CASE cfg = "ok" -> <<"{", "}">>
      [] cfg = "conflict" -> <<"{", "!", "}">>
      [] cfg = "unparsable" -> <<"{">>
      [] OTHER -> NoFile

Imports(f) == IF f = FileA THEN {FileX} ELSE {}

\* the directories of the world: "/", "/p", "/p/node_modules" and "/p2"; they
\* are there whatever files they hold
Directories ==
    {<<"/">>, projectRoot,
     <<"/", "p", "/", "n", "o", "d", "e", "_", "m", "o", "d", "u", "l", "e", "s">>,
     <<"/", "p", "2">>}

\* path lookup of the file system: one name after the other, each looked up
\* in a directory that is there ("." is the directory itself, ".." the one
\* above it, "/" being above itself); NoFile when a name is looked up in
\* anything else
RECURSIVE Lookup(_, _)
Lookup(at, segs) ==
    LET above == SelectSeqNonEmpty(Split(at, "/"))
        seg == Head(segs)
        entry == IF seg = <<".">> THEN at
                 ELSE IF seg = <<".", ".">>
                      THEN <<"/">> \o JoinWith(SubSeq(above, 1, Len(above) - 1), "/")
                 ELSE IF at = <<"/">> THEN at \o seg
                 ELSE at \o <<"/">> \o seg
    IN IF segs = <<>> THEN at
       ELSE IF at \notin Directories THEN NoFile
       ELSE Lookup(entry, Tail(segs))

\* fs.existsSync: a file that is there, or a directory. A path is looked up
\* from "/" or, when relative, from the working directory (process.cwd(), the
\* project directory); a path that ends with a separator names a directory.
Exists(dsk, p) ==
    IF p \in Paths THEN dsk[p] # NoFile
    ELSE IF p \in Directories THEN TRUE
    ELSE IF p = <<>> THEN FALSE
    ELSE LET from == IF IsAbsolute(p) THEN <<"/">> ELSE projectRoot
             found == Lookup(from, SelectSeqNonEmpty(Split(p, "/")))
         IN \/ found \in Directories
            \/ found \in Paths /\ dsk[found] # NoFile /\ p[Len(p)] # "/"

\* ts.sys.readFile: the text, or undefined when there is no such file
ReadFile(dsk, p) == IF p \in Paths /\ dsk[p] # NoFile THEN dsk[p] ELSE Undefined

\* JavaScript truthiness of a string | undefined
Truthy(content) == content # Undefined /\ content # <<>>

IsDeclarationFile(f) == EndsWith(f, <<".", "d", ".", "t", "s">>)

HasSourceExt(f) ==
    EndsWith(f, <<".", "t", "s">>) \/ EndsWith(f, <<".", "t", "s", "x">>)

\* parsedConfig.fileNames: the files of the include patterns that are on disk.
\* The configuration includes every source file under the root but c.ts;
\* without a usable tsconfig.json the defaults include c.ts too.
\* node_modules is excluded by default.
InScope(cfg, f) ==
    /\ StartsWith(f, projectRoot \o <<"/">>)
    /\ HasSourceExt(f)
    /\ ~Includes(f, <<"/", "n", "o", "d", "e", "_", "m", "o", "d", "u", "l", "e", "s", "/">>)
    /\ (ConfigRead(cfg) => f # FileC)

getScriptFileNames(cfg, dsk) == {f \in Paths : InScope(cfg, f) /\ Exists(dsk, f)}

(***************************************************************************)
(* Number.prototype.toString for a natural number                          *)
(***************************************************************************)
Digit(d) == CASE d = 0 -> "0" [] d = 1 -> "1" [] d = 2 -> "2" [] d = 3 -> "3"
              [] d = 4 -> "4" [] d = 5 -> "5" [] d = 6 -> "6" [] d = 7 -> "7"
              [] d = 8 -> "8" [] d = 9 -> "9"

RECURSIVE NumToString(_)
NumToString(n) == IF n < 10 THEN <<Digit(n)>> ELSE NumToString(n \div 10) \o <<Digit(n % 10)>>

(***************************************************************************)
(* The compiler (the external TypeScript language service), as far as the  *)
(* session sees it.  A program is a function from Paths to NotIn or a       *)
(* source file [version, content]: the text the compiler parsed and the     *)
(* version string the host reported for it.                                 *)
(***************************************************************************)
\* files.get(f) === undefined, and a path that is not a source file of the
\* program
NoEntry == [version |-> -1, content |-> Undefined]
NotIn == [version |-> <<>>, content |-> Undefined]

\* ts.DiagnosticCategory

\* diagnostic.messageText, by diagnostic code
MessageText(code) ==
    CASE code = 1005 -> "';' expected."
      [] code = 2322 -> "Type 'string' is not assignable to type 'number'."
      [] code = 2307 -> "Cannot find module '../p2/x'."
      [] code = 6133 -> "'x' is declared but its value is never read."
      [] code = 6385 -> "'f' is deprecated."
      [] code = 5053 -> "Option 'sourceMap' cannot be specified with option 'inlineSourceMap'."

\* a ts.Diagnostic; file is NoFile for a diagnostic without a source file
Diag(f, start, cat, code) ==
    [file |-> f, start |-> start, category |-> cat, code |-> code,
     messageText |-> MessageText(code)]

\* the source files of a program
SourceFiles(pg) == {f \in Paths : pg[f] # NotIn}

\* getSyntacticDiagnostics(f): one parse error per "#", in text order
RECURSIVE SyntacticFrom(_, _, _)
SyntacticFrom(f, text, i) ==
    IF i > Len(text) THEN <<>>
    ELSE (IF text[i] = "#" THEN <<Diag(f, i - 1, "Error", 1005)>> ELSE <<>>)
         \o SyntacticFrom(f, text, i + 1)

getSyntacticDiagnostics(pg, f) == SyntacticFrom(f, pg[f].content, 1)

\* an import is resolved when the imported file is in the program and exports
ImportResolved(pg, g) == pg[g] # NotIn /\ Includes(pg[g].content, <<"e">>)

RECURSIVE SemanticFrom(_, _, _)
SemanticFrom(f, text, i) ==
    IF i > Len(text) THEN <<>>
    ELSE (CASE text[i] = "!" -> <<Diag(f, i - 1, "Error", 2322)>>
            [] text[i] = "?" -> <<Diag(f, i - 1, "Warning", 6133)>>
            [] text[i] = "s" -> <<Diag(f, i - 1, "Message", 6385)>>
            [] OTHER -> <<>>)
         \o SemanticFrom(f, text, i + 1)

\* getSemanticDiagnostics(f): an unresolved import is reported at the start of
\* the importing file, then one diagnostic per "!", "?" and "s" in text order
getSemanticDiagnostics(pg, f) ==
    (IF \E g \in Imports(f) : ~ImportResolved(pg, g)
     THEN <<Diag(f, 0, "Error", 2307)>> ELSE <<>>)
    \o SemanticFrom(f, pg[f].content, 1)

\* sourceFile.getLineAndCharacterOfPosition(pos): 0-based line and character
LineOf(text, pos) == Cardinality({i \in 1..pos : text[i] = "\n"})

LineStart(text, pos) ==
    LET breaks == {i \in 1..pos : text[i] = "\n"}
    IN IF breaks = {} THEN 0 ELSE CHOOSE i \in breaks : \A j \in breaks : j <= i

getLineAndCharacterOfPosition(text, pos) ==
    [line |-> LineOf(text, pos), character |-> pos - LineStart(text, pos)]

(***************************************************************************)
(* The session: the snapshot store `files` and the language service host   *)
(***************************************************************************)
\* getScriptVersion (createLanguageServiceHost): the stored version as a
\* string, '0' for a path the store does not hold
getScriptVersion(fs, f) ==
    IF fs[f] # NoEntry THEN NumToString(fs[f].version) ELSE <<"0">>

\* getScriptSnapshot, the value returned: undefined for a file that is not on
\* disk, or that is not in the store and reads as empty; else the stored text
SnapshotOf(fs, dsk, f) ==
    IF ~Exists(dsk, f) THEN Undefined
    ELSE IF fs[f] # NoEntry THEN fs[f].content
    ELSE IF Truthy(ReadFile(dsk, f)) THEN ReadFile(dsk, f)
    ELSE Undefined

\* getScriptSnapshot, its effect on the store: a file seen for the first time
\* is stored with version 0
StoreAfterSnapshot(fs, dsk, f) ==
    IF Exists(dsk, f) /\ fs[f] = NoEntry /\ Truthy(ReadFile(dsk, f))
    THEN [fs EXCEPT ![f] = [version |-> 0, content |-> ReadFile(dsk, f)]]
    ELSE fs

\* updateFile putting a new Map, with the one file in it, in place of the store
updateFileForgetting(fs, dsk, f) ==
    LET content == ReadFile(dsk, f)
    IN IF Truthy(content) /\ f \in Paths
       THEN [g \in Paths |->
                IF g # f THEN NoEntry
                ELSE IF fs[f] # NoEntry
                THEN [version |-> fs[f].version + 1, content |-> content]
                ELSE [version |-> 0, content |-> content]]
       ELSE fs

\* updateFile: re-read the file and bump its version; nothing when the file
\* reads as undefined or as the empty string
updateFile(fs, dsk, f) ==
    LET content == ReadFile(dsk, f)
    IN IF Truthy(content) /\ f \in Paths
       THEN IF fs[f] # NoEntry
            THEN [fs EXCEPT ![f] = [version |-> fs[f].version + 1, content |-> content]]
            ELSE [fs EXCEPT ![f] = [version |-> 0, content |-> content]]
       ELSE fs

\* A session is [files, prog, roots]: the snapshot store, the program the
\* language service holds and the root file names that program was built for.
Session(fs, pg, rs) == [files |-> fs, prog |-> pg, roots |-> rs]

\* the files a program build asks the host for: the roots, the default library
\* and what the files it got import
RECURSIVE Requested(_, _, _)
Requested(S, fs, dsk) ==
    LET got == {g \in S : SnapshotOf(fs, dsk, g) # Undefined}
        more == S \cup UNION {Imports(f) : f \in got}
    IN IF more = S THEN S ELSE Requested(more, fs, dsk)

\* program.getMissingFilePaths(): what the program looked for and did not get
MissingFilePaths(st) ==
    (st.roots \cup {LibFile} \cup UNION {Imports(f) : f \in SourceFiles(st.prog)})
        \ SourceFiles(st.prog)

\* isProgramUptoDate: same roots, every source file at the version the host
\* reports, no missing file that is there now
isProgramUptoDate(st, cfg, dsk) ==
    /\ getScriptFileNames(cfg, dsk) = st.roots
    /\ \A f \in SourceFiles(st.prog) : st.prog[f].version = getScriptVersion(st.files, f)
    /\ ~\E f \in MissingFilePaths(st) : f \in Paths /\ dsk[f] # NoFile

\* createProgram with the old program: every requested file's snapshot is
\* fetched (getScriptSnapshot stores a first-seen file), and a source file is
\* reparsed from the snapshot only when the version differs from the old one's
createProgram(st, cfg, dsk) ==
    LET rs == getScriptFileNames(cfg, dsk)
        req == Requested(rs \cup {LibFile}, st.files, dsk)
        fs2 == [f \in Paths |->
                   IF f \in req THEN StoreAfterSnapshot(st.files, dsk, f)[f]
                   ELSE st.files[f]]
        pg2 == [f \in Paths |->
                   IF f \in req /\ SnapshotOf(st.files, dsk, f) # Undefined
                   THEN IF st.prog[f] # NotIn /\ st.prog[f].version = getScriptVersion(fs2, f)
                        THEN st.prog[f]
                        ELSE [version |-> getScriptVersion(fs2, f),
                              content |-> SnapshotOf(st.files, dsk, f)]
                   ELSE NotIn]
    IN Session(fs2, pg2, rs)

\* synchronizeHostData, run by every call into the language service
synchronizeHostData(st, cfg, dsk) ==
    IF isProgramUptoDate(st, cfg, dsk) THEN st ELSE createProgram(st, cfg, dsk)

\* the session the constructor leaves: an empty store, then service.getProgram()
NoProgram == Session([f \in Paths |-> NoEntry], [f \in Paths |-> NotIn], {})

Construct(cfg, dsk) == createProgram(NoProgram, cfg, dsk)

(***************************************************************************)
(* Query engine                                                            *)
(***************************************************************************)
Null == [file |-> <<>>, line |-> 0, column |-> 0, code |-> <<>>, message |-> "",
         severity |-> "null"]

\* formatDiagnostic with the compiler's 0-based line and character left as
\* they are
formatDiagnosticZeroBased(pg, d) ==
    IF d.file = NoFile THEN Null
    ELSE LET lc == getLineAndCharacterOfPosition(pg[d.file].content, d.start)
         IN [file |-> PathRelative(projectRoot, d.file),
             line |-> lc.line,
             column |-> lc.character,
             code |-> <<"T", "S">> \o NumToString(d.code),
             message |-> d.messageText,
             severity |-> IF d.category = "Error" THEN "error" ELSE "warning"]

\* formatDiagnostic: null without a source file; else the record, 1-based
formatDiagnostic(pg, d) ==
    IF d.file = NoFile THEN Null
    ELSE LET lc == getLineAndCharacterOfPosition(pg[d.file].content, d.start)
         IN [file |-> PathRelative(projectRoot, d.file),
             line |-> lc.line + 1,
             column |-> lc.character + 1,
             code |-> <<"T", "S">> \o NumToString(d.code),
             message |-> d.messageText,
             severity |-> IF d.category = "Error" THEN "error" ELSE "warning"]

IsReported(d) == d.category = "Error" \/ d.category = "Warning"

\* the records of all diagnostics that have a file, whatever their category
RECURSIVE ToErrorsAnyCategory(_, _)
ToErrorsAnyCategory(pg, diags) ==
    IF diags = <<>> THEN <<>>
    ELSE LET d == Head(diags)
             e == formatDiagnostic(pg, d)
         IN (IF e # Null THEN <<e>> ELSE <<>>)
            \o ToErrorsAnyCategory(pg, Tail(diags))

\* allDiagnostics.filter(category).map(formatDiagnostic).filter(not null)
RECURSIVE ToErrors(_, _)
ToErrors(pg, diags) ==
    IF diags = <<>> THEN <<>>
    ELSE LET d == Head(diags)
             e == formatDiagnostic(pg, d)
         IN (IF IsReported(d) /\ e # Null THEN <<e>> ELSE <<>>)
            \o ToErrors(pg, Tail(diags))

\* a CheckResult whose totalErrors repeats the number of files
CheckResultCountingFiles(errors, n, t) ==
    [errors |-> errors,
     metrics |-> [checkTime |-> t, filesChecked |-> n, totalErrors |-> n]]

\* a CheckResult with its metrics block
CheckResult(errors, n, t) ==
    [errors |-> errors,
     metrics |-> [checkTime |-> t, filesChecked |-> n, totalErrors |-> Len(errors)]]

FileNotFound == "File not found"
CouldNotFindSourceFile == "Could not find source file"
NotAGitRepository == "Not a git repository or git command failed"
\* the default branch of CLI.run's switch statement
PleaseSpecify == "Please specify a command: check, check-changed, check-all, or watch"
NoError == "none"

\* the value of a const binding: the one element of {expression}, computed
\* once where a set constructor binds it
Only(S) == CHOOSE x \in S : TRUE

\* What a call leaves: the session, the message of the Error it threw (NoError
\* when it returned) and the result it returned (<<>> when it threw)
Returned(st, r) == [session |-> st, error |-> NoError, result |-> <<r>>]
Thrown(st, msg) == [session |-> st, error |-> msg, result |-> <<>>]

absolutePath(filePath) ==
    IF IsAbsolute(filePath) THEN filePath ELSE PathJoin(projectRoot, filePath)

\* checkFile without the fs.existsSync test of its first lines
checkFileUnguarded(st, cfg, dsk, filePath, t) ==
    LET abs == absolutePath(filePath)
        upd == Session(updateFile(st.files, dsk, abs), st.prog, st.roots)
        st2 == synchronizeHostData(upd, cfg, dsk)
    IN IF abs \notin SourceFiles(st2.prog)
       THEN Thrown(st2, CouldNotFindSourceFile)
       ELSE LET all == getSyntacticDiagnostics(st2.prog, abs)
                       \o getSemanticDiagnostics(st2.prog, abs)
            IN Returned(st2, CheckResult(ToErrors(st2.prog, all), 1, t))

\* checkFile asking for the diagnostics first and refreshing the snapshot
\* after
checkFileRefreshLast(st, cfg, dsk, filePath, t) ==
    LET abs == absolutePath(filePath)
    IN IF ~Exists(dsk, abs) THEN Thrown(st, FileNotFound)
       ELSE LET st1 == synchronizeHostData(st, cfg, dsk)
                st2 == Session(updateFile(st1.files, dsk, abs), st1.prog, st1.roots)
            IN IF abs \notin SourceFiles(st1.prog)
               THEN Thrown(st2, CouldNotFindSourceFile)
               ELSE LET all == getSyntacticDiagnostics(st1.prog, abs)
                               \o getSemanticDiagnostics(st1.prog, abs)
                    IN Returned(st2, CheckResult(ToErrors(st1.prog, all), 1, t))

\* checkFile deleting the store's entry of a file that it does not find
checkFileForgetting(st, cfg, dsk, filePath, t) ==
    LET abs == absolutePath(filePath)
    IN IF ~Exists(dsk, abs)
       THEN Thrown(Session([f \in Paths |-> IF f = abs THEN NoEntry ELSE st.files[f]],
                           st.prog, st.roots),
                   FileNotFound)
       ELSE LET upd == Session(updateFile(st.files, dsk, abs), st.prog, st.roots)
                st2 == synchronizeHostData(upd, cfg, dsk)
            IN IF abs \notin SourceFiles(st2.prog)
               THEN Thrown(st2, CouldNotFindSourceFile)
               ELSE LET all == getSyntacticDiagnostics(st2.prog, abs)
                               \o getSemanticDiagnostics(st2.prog, abs)
                    IN Returned(st2, CheckResult(ToErrors(st2.prog, all), 1, t))

\* checkFile(filePath); t is Date.now() - startTime
checkFile(st, cfg, dsk, filePath, t) ==
    LET abs == absolutePath(filePath)
    IN IF ~Exists(dsk, abs) THEN Thrown(st, FileNotFound)
       ELSE LET upd == Session(updateFile(st.files, dsk, abs), st.prog, st.roots)
                st2 == synchronizeHostData(upd, cfg, dsk)
            IN IF abs \notin SourceFiles(st2.prog)
               THEN Thrown(st2, CouldNotFindSourceFile)
               ELSE LET all == getSyntacticDiagnostics(st2.prog, abs)
                               \o getSemanticDiagnostics(st2.prog, abs)
                    IN Returned(st2, CheckResult(ToErrors(st2.prog, all), 1, t))

\* `git status --porcelain`: what execSync returns, or GitFailed when it throws
GitFailed == <<"GitFailed">>

\* the candidates without the filter on the file extension
RECURSIVE ChangedFromAnyExt(_)
ChangedFromAnyExt(ls) ==
    IF ls = <<>> THEN <<>>
    ELSE LET line == Head(ls)
             file == Trim(Substring(line, 3))
         IN (IF Len(line) > 0
             THEN <<PathJoin(projectRoot, file)>> ELSE <<>>)
            \o ChangedFromAnyExt(Tail(ls))

\* gitStatus.split('\n').filter(nonempty).map(substring(3).trim())
\*          .filter(.ts | .tsx).map(join(projectRoot, file))
RECURSIVE ChangedFrom(_)
ChangedFrom(ls) ==
    IF ls = <<>> THEN <<>>
    ELSE LET line == Head(ls)
             file == Trim(Substring(line, 3))
         IN (IF Len(line) > 0 /\ HasSourceExt(file)
             THEN <<PathJoin(projectRoot, file)>> ELSE <<>>)
            \o ChangedFrom(Tail(ls))

changedFiles(gitStatus) == ChangedFrom(Split(gitStatus, "\n"))

\* the loop counting a candidate when it is handed to checkFile
RECURSIVE CheckEachCountAll(_, _, _, _)
CheckEachCountAll(acc, cfg, dsk, todo) ==
    IF todo = <<>> \/ acc.error # NoError THEN acc
    ELSE LET file == Head(todo)
         IN IF ~Exists(dsk, file) THEN CheckEachCountAll(acc, cfg, dsk, Tail(todo))
            ELSE Only({
                LET seen == [acc EXCEPT !.session = r.session,
                                        !.passed = Append(@, file),
                                        !.checkedFileCount = @ + 1]
                IN IF r.error = NoError
                   THEN CheckEachCountAll([seen EXCEPT
                                  !.allErrors = @ \o r.result[1].errors,
                                  !.done = Append(@, file)],
                              cfg, dsk, Tail(todo))
                   ELSE IF r.error = CouldNotFindSourceFile
                   THEN CheckEachCountAll(seen, cfg, dsk, Tail(todo))
                   ELSE [seen EXCEPT !.error = r.error]
                : r \in {checkFile(acc.session, cfg, dsk, file, 0)} })

\* The loop of checkChangedFiles over the candidates left. acc carries the
\* session, allErrors, checkedFileCount and, for the record, the candidates
\* handed to checkFile (passed) and those whose checkFile returned (done).
RECURSIVE CheckEach(_, _, _, _)
CheckEach(acc, cfg, dsk, todo) ==
    IF todo = <<>> \/ acc.error # NoError THEN acc
    ELSE LET file == Head(todo)
         IN IF ~Exists(dsk, file) THEN CheckEach(acc, cfg, dsk, Tail(todo))
            ELSE Only({
                LET seen == [acc EXCEPT !.session = r.session,
                                        !.passed = Append(@, file)]
                IN IF r.error = NoError
                   THEN CheckEach([seen EXCEPT
                                  !.allErrors = @ \o r.result[1].errors,
                                  !.checkedFileCount = @ + 1,
                                  !.done = Append(@, file)],
                              cfg, dsk, Tail(todo))
                   ELSE IF r.error = CouldNotFindSourceFile
                   THEN CheckEach(seen, cfg, dsk, Tail(todo))
                   ELSE [seen EXCEPT !.error = r.error]
                : r \in {checkFile(acc.session, cfg, dsk, file, 0)} })

\* the disk once another process has removed the file gone
Removed(dsk, gone) == [f \in Paths |-> IF f = gone THEN NoFile ELSE dsk[f]]

\* the loop rethrowing whatever checkFile throws
RECURSIVE CheckEachWhileStrict(_, _, _, _, _)
CheckEachWhileStrict(acc, cfg, dsk, todo, gone) ==
    IF todo = <<>> \/ acc.error # NoError THEN acc
    ELSE LET file == Head(todo)
         IN IF ~Exists(dsk, file) THEN CheckEachWhileStrict(acc, cfg, dsk, Tail(todo), gone)
            ELSE Only({
                LET seen == [acc EXCEPT !.session = r.session,
                                        !.passed = Append(@, file)]
                IN IF r.error = NoError
                   THEN CheckEachWhileStrict([seen EXCEPT
                                  !.allErrors = @ \o r.result[1].errors,
                                  !.checkedFileCount = @ + 1,
                                  !.done = Append(@, file)],
                              cfg, dsk, Tail(todo), gone)
                   ELSE [seen EXCEPT !.error = r.error]
                : r \in {checkFile(acc.session, cfg,
                                   IF file = gone THEN Removed(dsk, gone) ELSE dsk,
                                   file, 0)} })

\* The loop of checkChangedFiles while another process removes the file gone
\* between the fs.existsSync of the loop and the one of checkFile
RECURSIVE CheckEachWhile(_, _, _, _, _)
CheckEachWhile(acc, cfg, dsk, todo, gone) ==
    IF todo = <<>> \/ acc.error # NoError THEN acc
    ELSE LET file == Head(todo)
         IN IF ~Exists(dsk, file) THEN CheckEachWhile(acc, cfg, dsk, Tail(todo), gone)
            ELSE Only({
                LET seen == [acc EXCEPT !.session = r.session,
                                        !.passed = Append(@, file)]
                IN IF r.error = NoError
                   THEN CheckEachWhile([seen EXCEPT
                                  !.allErrors = @ \o r.result[1].errors,
                                  !.checkedFileCount = @ + 1,
                                  !.done = Append(@, file)],
                              cfg, dsk, Tail(todo), gone)
                   ELSE IF r.error = CouldNotFindSourceFile
                   THEN CheckEachWhile(seen, cfg, dsk, Tail(todo), gone)
                   ELSE [seen EXCEPT !.error = r.error]
                : r \in {checkFile(acc.session, cfg,
                                   IF file = gone THEN Removed(dsk, gone) ELSE dsk,
                                   file, 0)} })

\* checkChangedFiles() while another process removes the file gone
checkChangedFilesWhile(st, cfg, dsk, gitStatus, t, gone) ==
    IF gitStatus = GitFailed
    THEN [session |-> st, error |-> NotAGitRepository, result |-> <<>>,
          passed |-> <<>>, done |-> <<>>]
    ELSE Only({
            [session |-> acc.session, error |-> acc.error,
             result |-> IF acc.error = NoError
                        THEN <<CheckResult(acc.allErrors, acc.checkedFileCount, t)>>
                        ELSE <<>>,
             passed |-> acc.passed, done |-> acc.done]
            : acc \in {CheckEachWhile([session |-> st, error |-> NoError, allErrors |-> <<>>,
                                  checkedFileCount |-> 0, passed |-> <<>>, done |-> <<>>],
                                 cfg, dsk, changedFiles(gitStatus), gone)} })

\* checkChangedFiles taking a failed git status for an empty one
checkChangedFilesLenient(st, cfg, dsk, gitStatus, t) ==
    IF gitStatus = GitFailed
    THEN [session |-> st, error |-> NoError, result |-> <<CheckResult(<<>>, 0, t)>>,
          passed |-> <<>>, done |-> <<>>]
    ELSE Only({
            [session |-> acc.session, error |-> acc.error,
             result |-> IF acc.error = NoError
                        THEN <<CheckResult(acc.allErrors, acc.checkedFileCount, t)>>
                        ELSE <<>>,
             passed |-> acc.passed, done |-> acc.done]
            : acc \in {CheckEach([session |-> st, error |-> NoError, allErrors |-> <<>>,
                                  checkedFileCount |-> 0, passed |-> <<>>, done |-> <<>>],
                                 cfg, dsk, changedFiles(gitStatus))} })

\* checkChangedFiles(); passed and done are kept beside the outcome
checkChangedFiles(st, cfg, dsk, gitStatus, t) ==
    IF gitStatus = GitFailed
    THEN [session |-> st, error |-> NotAGitRepository, result |-> <<>>,
          passed |-> <<>>, done |-> <<>>]
    ELSE Only({
            [session |-> acc.session, error |-> acc.error,
             result |-> IF acc.error = NoError
                        THEN <<CheckResult(acc.allErrors, acc.checkedFileCount, t)>>
                        ELSE <<>>,
             passed |-> acc.passed, done |-> acc.done]
            : acc \in {CheckEach([session |-> st, error |-> NoError, allErrors |-> <<>>,
                                  checkedFileCount |-> 0, passed |-> <<>>, done |-> <<>>],
                                 cfg, dsk, changedFiles(gitStatus))} })

\* compareDiagnostics: no file first, then by file name, start and code
PathIndex(f) == IF f = NoFile THEN 0 ELSE CHOOSE i \in 1..Len(PathOrder) : PathOrder[i] = f

DiagLess(a, b) ==
    \/ PathIndex(a.file) < PathIndex(b.file)
    \/ /\ a.file = b.file
       /\ \/ a.start < b.start
          \/ a.start = b.start /\ a.code < b.code

RECURSIVE InsertDiag(_, _)
InsertDiag(d, sorted) ==
    IF sorted = <<>> THEN <<d>>
    ELSE IF d = Head(sorted) THEN sorted
    ELSE IF DiagLess(d, Head(sorted)) THEN <<d>> \o sorted
    ELSE <<Head(sorted)>> \o InsertDiag(d, Tail(sorted))

RECURSIVE sortAndDeduplicateDiagnostics(_)
sortAndDeduplicateDiagnostics(diags) ==
    IF diags = <<>> THEN <<>>
    ELSE InsertDiag(Head(diags), sortAndDeduplicateDiagnostics(Tail(diags)))

\* program.getOptionsDiagnostics(): conflicting compiler options are reported
\* without a source file
getOptionsDiagnostics(cfg) ==
    IF cfg = "conflict" THEN <<Diag(NoFile, 0, "Error", 5053)>> ELSE <<>>

RECURSIVE DiagnosticsOfFiles(_, _)
DiagnosticsOfFiles(pg, order) ==
    IF order = <<>> THEN <<>>
    ELSE (IF pg[Head(order)] # NotIn
          THEN getSyntacticDiagnostics(pg, Head(order))
               \o getSemanticDiagnostics(pg, Head(order))
          ELSE <<>>)
         \o DiagnosticsOfFiles(pg, Tail(order))

\* ts.getPreEmitDiagnostics(program)
getPreEmitDiagnostics(pg, cfg) ==
    sortAndDeduplicateDiagnostics(getOptionsDiagnostics(cfg) \o DiagnosticsOfFiles(pg, PathOrder))

\* the filter of checkAll that counts "user source files"
userSourceFiles(pg) ==
    {f \in SourceFiles(pg) :
        /\ ~Includes(f, <<"n", "o", "d", "e", "_", "m", "o", "d", "u", "l", "e", "s">>)
        /\ ~Includes(f, <<"l", "i", "b", ".">>)
        /\ ~IsDeclarationFile(f)
        /\ StartsWith(f, projectRoot)}

\* checkAll refreshing the snapshot of a.ts before it asks for the program
checkAllRefreshing(st, cfg, dsk, t) ==
    LET upd == Session(updateFile(st.files, dsk, FileA), st.prog, st.roots)
        st2 == synchronizeHostData(upd, cfg, dsk)
        errors == ToErrors(st2.prog, getPreEmitDiagnostics(st2.prog, cfg))
    IN Returned(st2, CheckResult(errors, Cardinality(userSourceFiles(st2.prog)), t))

\* checkAll()
checkAll(st, cfg, dsk, t) ==
    LET st2 == synchronizeHostData(st, cfg, dsk)
        errors == ToErrors(st2.prog, getPreEmitDiagnostics(st2.prog, cfg))
    IN Returned(st2, CheckResult(errors, Cardinality(userSourceFiles(st2.prog)), t))

(***************************************************************************)
(* OutputFormatter.formatJSON.  The JSON text is modelled by the object it *)
(* denotes: a record whose fields are the keys of the output.              *)
(***************************************************************************)
\* formatJSON without the deletion of the metrics key
formatJSONKeepingMetrics(result, showMetrics) == result

\* formatJSON: a copy of the result, its metrics key deleted unless
\* showMetrics holds
formatJSON(result, showMetrics) ==
    IF ~showMetrics
    THEN [k \in DOMAIN result \ {"metrics"} |-> result[k]]
    ELSE result

(***************************************************************************)
(* CLI.run: the query, the output and the exit code of one command         *)
(***************************************************************************)
Commands == {"check", "check-changed", "check-all"}

\* --output
OutputFormats == {"json", "cli", "markdown"}

\* no query was made: result stays null (<<>>), nothing was thrown
NoQuery(st) ==
    [session |-> st, error |-> NoError, result |-> <<>>, passed |-> <<>>,
     done |-> <<>>]

\* the process has not exited
Running == <<>>

\* yargs, as `.argv` is evaluated before the try block: the code it ends the
\* process with, or Running when it hands the command line on. --help and
\* --version print on stdout and exit 0, whatever else the command line
\* holds; an --output that is none of the choices, and the command `check`
\* without its <file> (Undefined), print the usage on stderr and exit 1.
\* Words after `--` (dashed) are positionals to yargs and no command of its
\* own: nothing is demanded of them.
yargs(command, file, outputFormat, help, version, dashed) ==
    IF help \/ version THEN <<0>>
    ELSE IF outputFormat \notin OutputFormats THEN <<1>>
    ELSE IF ~dashed /\ command = "check" /\ file = Undefined THEN <<1>>
    ELSE Running

\* the switch statement: the query of the command. The result stays null for
\* `check` with a falsy argv.file (undefined or "") and for `watch`, which
\* makes no query;
\* the default branch writes its message to stderr and exits, and its outcome
\* carries that message as error.
runCommand(st, cfg, dsk, command, file, gitStatus, t) ==
    CASE command = "check" ->
            IF Truthy(file)
            THEN checkFile(st, cfg, dsk, file, t) @@ [passed |-> <<>>, done |-> <<>>]
            ELSE NoQuery(st)
      [] command = "check-changed" -> checkChangedFiles(st, cfg, dsk, gitStatus, t)
      [] command = "check-all" ->
            checkAll(st, cfg, dsk, t) @@ [passed |-> <<>>, done |-> <<>>]
      [] command = "watch" -> NoQuery(st)
      [] OTHER -> [NoQuery(st) EXCEPT !.error = PleaseSpecify]

\* exitCode: 2 from the default branch and from the catch block, else 1 with
\* errors, else 0
exitCodeOf(out) ==
    IF out.error # NoError THEN 2
    ELSE IF out.result # <<>> /\ Len(out.result[1].errors) > 0 THEN 1
    ELSE 0

(***************************************************************************)
(* Inputs of the queries                                                   *)
(***************************************************************************)
\* checkFile("a.ts"), relative to the project root
ArgA ==
    <<"a", ".", "t", "s">>
\* checkFile("gone.ts"): no such file, ever
ArgGone ==
    <<"g", "o", "n", "e", ".", "t", "s">>

\* the filePath arguments: relative and absolute ones
FilePathArgs == {ArgA, FileB, FileC, ArgGone}

\* argv.file of `check <file>`: those, and the empty string
FileArgs == FilePathArgs \cup {<<>>}

\* Date.now() - startTime
CheckTimes == {0, 7}

\* one modified source file
StatusOne ==
    <<" ", "M", " ", "a", ".", "t", "s", "\n">>
\* two source files, a markdown file and the excluded c.ts
StatusMixed ==
    <<" ", "M", " ", "a", ".", "t", "s", "\n", "?", "?", " ", "b", ".", "t",
    "s", "x", "\n", " ", "M", " ", "r", ".", "m", "d", "\n", " ", "M", " ",
    "c", ".", "t", "s", "\n">>
\* the same path on two lines
StatusTwice ==
    <<" ", "M", " ", "a", ".", "t", "s", "\n", " ", "M", " ", "a", ".", "t",
    "s", "\n">>
StatusOutputs == {StatusOne, StatusMixed, StatusTwice, GitFailed}
\* a.ts on two lines with b.tsx between them
StatusAgain ==
    <<" ", "M", " ", "a", ".", "t", "s", "\n", " ", "M", " ", "b", ".", "t",
    "s", "x", "\n", " ", "M", " ", "a", ".", "t", "s", "\n">>

(***************************************************************************)
(* State                                                                   *)
(***************************************************************************)
VARIABLES
    disk,       \* the file system: Paths -> text or NoFile
    config,     \* the kind of tsconfig.json found at construction
    noCache,    \* CheckerOptions.noCache, as given to the constructor
    files,      \* TypeScriptFastChecker.files: Paths -> NoEntry or [version, content]
    prog,       \* the program held by the language service
    roots,      \* the root file names of that program
    last,       \* the latest call and its outcome
    prev,       \* the call before it
    dirty,      \* the disk was written since the latest call
    exitCode,   \* <<the code process.exit was called with>>; Running before
    writes,     \* number of writes so far
    calls,      \* number of queries so far
    watching,   \* watch mode: createWatchProgram has run
    timer,      \* watch mode: timerToUpdateProgram is pending
    burst,      \* watch mode: notifications delivered since the latest check cycle
    emitted,    \* watch mode: the results handed to onDiagnostic by the latest cycle
    cycleOf,    \* watch mode: what the latest cycle was about
    cycles,     \* watch mode: number of check cycles so far
    flight,     \* watch mode: the build the event loop is running, if any
    notices,    \* watch mode: file-watcher notifications not yet delivered
    formatting  \* OutputFormatter: the latest result formatted as JSON

vars == <<disk, config, noCache, files, prog, roots, last, prev, dirty, exitCode,
          writes, calls, watching, timer, burst, emitted, cycleOf, cycles,
          flight, notices, formatting>>

optionVars == <<config, noCache>>
sessionVars == <<files, prog, roots>>
watchVars == <<watching, timer, burst, emitted, cycleOf, cycles, flight, notices>>

MaxWrites == 1
MaxCalls == 2
MaxBurst == 3
MaxCycles == 2

NoCall ==
    [op |-> "none", arg |-> <<>>, error |-> NoError, result |-> <<>>,
     passed |-> <<>>, done |-> <<>>, dirtyBefore |-> FALSE]

Call(op, arg, out, d) ==
    [op |-> op, arg |-> arg, error |-> out.error, result |-> out.result,
     passed |-> out.passed, done |-> out.done, dirtyBefore |-> d]

\* nothing formatted yet
NoFormat == [result |-> [errors |-> <<>>], showMetrics |-> FALSE, output |-> <<>>]

NoCycle == [burst |-> 0, diagnostics |-> <<>>, errors |-> <<>>, quiet |-> FALSE]

\* no build is running. building: updateProgram is on the stack, with the
\* diagnostics, errors and printed results of the program it built; queued: a
\* file was written meanwhile, and its notification waits for the event loop;
\* late: the build before left such a notification; done: so did the build
\* before the latest cycle
NoFlight ==
    [building |-> FALSE, diagnostics |-> <<>>, errors |-> <<>>, printed |-> <<>>,
     queued |-> FALSE, late |-> FALSE, done |-> FALSE]

\* what is kept of a call once another follows it: all but its checkTime
Earlier(c) ==
    IF c.result = <<>> THEN c ELSE [c EXCEPT !.result[1].metrics.checkTime = 0]

TheSession == Session(files, prog, roots)

\* the texts a file is given by a write; NoFile deletes it
WrittenTo(f) ==
    CASE f = FileA -> {Good, Bad, Empty, NoFile}
      [] f = FileB -> {Good, Warn, Empty, NoFile}
      [] f = FileX -> {Good, Warn, NoFile}

\* a disk with the given texts of a.ts and b.tsx
DiskOf(a, b) ==
    [f \in Paths |->
        CASE f = FileA -> a
          [] f = FileB -> b
          [] f = FileX -> Good
          [] f = FileC -> Good
          [] f = LibFile -> Good
          [] f = FileR -> Good
          [] f = configPath -> ConfigText("ok")]

\* the disk when the session is constructed
InitialDisks == {DiskOf(Bad, Good), DiskOf(Good, Empty)}

\* the session constructed on one of the disks, holding the tsconfig.json of
\* one of the configurations, and with one of the values of the noCache
\* option, which the constructor does not read
ConstructedWith(disks, cfgs, caching) ==
    /\ config \in cfgs
    /\ disk \in {[d EXCEPT ![configPath] = ConfigText(config)] : d \in disks}
    /\ noCache \in caching
    /\ LET st == Construct(config, disk)
       IN files = st.files /\ prog = st.prog /\ roots = st.roots
    /\ last = NoCall
    /\ prev = NoCall
    /\ dirty = FALSE
    /\ exitCode = Running
    /\ writes = 0
    /\ calls = 0
    /\ watching = FALSE
    /\ timer = FALSE
    /\ burst = 0
    /\ emitted = <<>>
    /\ cycleOf = NoCycle
    /\ cycles = 0
    /\ flight = NoFlight
    /\ notices = 0
    /\ formatting = NoFormat

\* the same with noCache left out of the options
ConstructedOn(disks, cfgs) == ConstructedWith(disks, cfgs, {FALSE})

Constructed(cfgs) == ConstructedOn(InitialDisks, cfgs)

Init == Constructed(ConfigKinds)

\* a file is created, rewritten, truncated or deleted on disk
WriteFile(f, c) ==
    /\ exitCode = Running
    /\ ~watching
    /\ writes < MaxWrites
    /\ disk[f] # c
    /\ disk' = [disk EXCEPT ![f] = c]
    /\ dirty' = TRUE
    /\ writes' = writes + 1
    /\ UNCHANGED <<optionVars, sessionVars, last, prev, exitCode, calls, watchVars,
                   formatting>>

Adopt(out) ==
    /\ files' = out.session.files
    /\ prog' = out.session.prog
    /\ roots' = out.session.roots

\* the outcome with Date.now() - startTime = t in its metrics
Timed(out, t) ==
    IF out.result = <<>> THEN out
    ELSE [out EXCEPT !.result[1].metrics.checkTime = t]

\* the session takes a query: the process runs, is not watching, and the
\* bound on the number of queries is not reached
CanQuery ==
    /\ exitCode = Running
    /\ ~watching
    /\ calls < MaxCalls

\* a query of the library API; prev keeps the call before when both are
\* checkFile calls
Query(op, arg, out) ==
    /\ Adopt(out)
    /\ \E t \in CheckTimes : last' = Call(op, arg, Timed(out, t), dirty)
    /\ prev' = IF op = "checkFile" /\ last.op = "checkFile" THEN Earlier(last) ELSE NoCall
    /\ dirty' = FALSE
    /\ calls' = calls + 1
    /\ UNCHANGED <<disk, optionVars, exitCode, writes, watchVars, formatting>>

CheckFile(filePath) ==
    /\ CanQuery
    /\ \E out \in {checkFile(TheSession, config, disk, filePath, 0)
                       @@ [passed |-> <<>>, done |-> <<>>]} :
          Query("checkFile", filePath, out)

CheckChangedFiles(gitStatus) ==
    /\ CanQuery
    /\ \E out \in {checkChangedFiles(TheSession, config, disk, gitStatus, 0)} :
          Query("checkChangedFiles", gitStatus, out)

CheckAll ==
    /\ CanQuery
    /\ \E out \in {checkAll(TheSession, config, disk, 0) @@ [passed |-> <<>>, done |-> <<>>]} :
          Query("checkAll", <<>>, out)

\* OutputFormatter.print(result, outputFormat, showMetrics) as CLI.run calls
\* it, for the result it has unless quiet holds and the result has no
\* errors: what is formatted afterwards. The JSON output is kept; the text of
\* the cli and markdown formats is not followed.
Shows(out, outputFormat, quiet, showMetrics) ==
    IF /\ out.error = NoError
       /\ out.result # <<>>
       /\ (~quiet \/ Len(out.result[1].errors) > 0)
       /\ outputFormat = "json"
    THEN [result |-> out.result[1], showMetrics |-> showMetrics,
          output |-> <<formatJSON(out.result[1], showMetrics)>>]
    ELSE formatting

Writes == \E f \in Writable : \E c \in WrittenTo(f) : WriteFile(f, c)

\* the library API on one session
Next ==
    \/ Writes
    \/ \E fp \in FilePathArgs : CheckFile(fp)
    \/ \E g \in StatusOutputs : CheckChangedFiles(g)
    \/ CheckAll

Spec == Constructed({"ok", "conflict", "absent"}) /\ [][Next]_vars

\* checkFile alone
NextFile == Writes \/ \E fp \in FilePathArgs : CheckFile(fp)

SpecFile == Constructed({"ok", "absent"}) /\ [][NextFile]_vars

\* checkChangedFiles alone
NextChanged == Writes \/ \E g \in StatusOutputs : CheckChangedFiles(g)

SpecChanged == Constructed({"ok", "absent"}) /\ [][NextChanged]_vars

\* the candidate gone, on disk when checkChangedFiles starts, is removed by
\* another process while the loop is at it
CheckChangedFilesWhile(gitStatus, gone) ==
    /\ CanQuery
    /\ writes < MaxWrites
    /\ gitStatus # GitFailed
    /\ Exists(disk, gone)
    /\ \E i \in 1..Len(changedFiles(gitStatus)) : changedFiles(gitStatus)[i] = gone
    /\ \E out \in {checkChangedFilesWhile(TheSession, config, disk, gitStatus, 0, gone)} :
          /\ Adopt(out)
          /\ \E t \in CheckTimes :
                last' = Call("checkChangedFiles", gitStatus, Timed(out, t), dirty)
    /\ prev' = NoCall
    /\ disk' = Removed(disk, gone)
    /\ dirty' = TRUE
    /\ writes' = writes + 1
    /\ calls' = calls + 1
    /\ UNCHANGED <<optionVars, exitCode, watchVars, formatting>>

\* checkChangedFiles, alone on the disk or with another process removing a
\* candidate
NextRace ==
    \/ Writes
    \/ \E g \in StatusOutputs : CheckChangedFiles(g)
    \/ \E g \in StatusOutputs : \E f \in {FileA, FileB, FileC} : CheckChangedFilesWhile(g, f)

SpecRace == Constructed({"ok", "absent"}) /\ [][NextRace]_vars

\* checkChangedFiles on status outputs of several files
NextSeveral == Writes \/ \E g \in {StatusMixed, StatusAgain} : CheckChangedFiles(g)

SpecSeveral == Constructed({"ok", "absent"}) /\ [][NextSeveral]_vars

\* checkAll alone
NextAll == Writes \/ CheckAll

SpecAll == Constructed({"ok", "conflict", "absent"}) /\ [][NextAll]_vars

\* checkAll on a project with a dependency whose declaration file has errors
BrokenDependency == [DiskOf(Good, Good) EXCEPT ![LibFile] = Bad]

SpecDependency ==
    ConstructedOn(InitialDisks \cup {BrokenDependency}, {"ok", "absent"})
        /\ [][NextAll]_vars

\* checkFile and checkAll
NextFileAll == Writes \/ (\E fp \in FilePathArgs : CheckFile(fp)) \/ CheckAll

SpecFileAll == Constructed({"ok", "conflict", "absent"}) /\ [][NextFileAll]_vars

\* checkFile and checkAll on a session constructed with noCache: true
SpecNoCache ==
    ConstructedWith(InitialDisks, {"ok", "absent"}, {TRUE}) /\ [][NextFileAll]_vars

(***************************************************************************)
(* Watch mode: watch() hands the configuration to ts.createWatchProgram,   *)
(* which builds the program from the disk, reports every diagnostic of a   *)
(* build through the reportDiagnostic callback, and after a file change    *)
(* rebuilds when its update timer, restarted by every change, runs out.    *)
(* The scenarios start from a valid tsconfig.json.                         *)
(***************************************************************************)
\* the program of the watch: the project's files as they are on disk
WatchProgram(cfg, dsk) ==
    LET rs == getScriptFileNames(cfg, dsk)
        onDisk(S) == {f \in S : f \in Paths /\ dsk[f] # NoFile}
        all == onDisk(rs \cup {LibFile} \cup UNION {Imports(f) : f \in onDisk(rs)})
    IN [f \in Paths |->
           IF f \in all THEN [version |-> <<>>, content |-> dsk[f]] ELSE NotIn]

RECURSIVE SyntacticOfFiles(_, _)
SyntacticOfFiles(pg, order) ==
    IF order = <<>> THEN <<>>
    ELSE (IF pg[Head(order)] # NotIn
          THEN getSyntacticDiagnostics(pg, Head(order)) ELSE <<>>)
         \o SyntacticOfFiles(pg, Tail(order))

RECURSIVE SemanticOfFiles(_, _)
SemanticOfFiles(pg, order) ==
    IF order = <<>> THEN <<>>
    ELSE (IF pg[Head(order)] # NotIn
          THEN getSemanticDiagnostics(pg, Head(order)) ELSE <<>>)
         \o SemanticOfFiles(pg, Tail(order))

\* the diagnostics a build reports (emitFilesAndReportErrors): the syntactic
\* ones, or without any the semantic ones, sorted
WatchDiagnostics(pg) ==
    LET syn == SyntacticOfFiles(pg, PathOrder)
    IN sortAndDeduplicateDiagnostics(
           IF syn # <<>> THEN syn ELSE SemanticOfFiles(pg, PathOrder))

\* the reportDiagnostic callback of watch(), over the diagnostics of one
\* build: a result { errors: [error] } is handed to onDiagnostic for each
\* diagnostic that has a file
RECURSIVE onDiagnosticCalls(_, _)
onDiagnosticCalls(pg, diags) ==
    IF diags = <<>> THEN <<>>
    ELSE LET d == Head(diags)
             error == formatDiagnostic(pg, d)
         IN (IF d.file # NoFile /\ error # Null
             THEN <<[errors |-> <<error>>]>> ELSE <<>>)
            \o onDiagnosticCalls(pg, Tail(diags))

\* runWatchMode's callback prints a result unless quiet holds and the result
\* has no errors
Printed(results, quiet) ==
    SelectSeq(results, LAMBDA r : ~quiet \/ Len(r.errors) > 0)

\* one build of the watch program and what it makes the CLI print
Cycle(cfg, dsk, quiet) ==
    LET pg == WatchProgram(cfg, dsk)
        diags == WatchDiagnostics(pg)
    IN [diagnostics |-> diags,
        errors |-> ToErrors(pg, diags),
        printed |-> Printed(onDiagnosticCalls(pg, diags), quiet)]

\* `watch`: CLI.runWatchMode, checker.watch, the first build
StartWatch(quiet) ==
    /\ exitCode = Running
    /\ ~watching
    /\ last = NoCall
    /\ watching' = TRUE
    /\ LET c == Cycle(config, disk, quiet)
       IN /\ emitted' = c.printed
          /\ cycleOf' = [burst |-> 0, diagnostics |-> c.diagnostics, errors |-> c.errors,
                         quiet |-> quiet]
    /\ cycles' = 1
    /\ timer' = FALSE
    /\ burst' = 0
    /\ UNCHANGED <<disk, optionVars, sessionVars, last, prev, dirty, exitCode, writes, calls,
                   flight, notices, formatting>>

\* CLI.run on a fresh session. command is argv._[0], file the word after it.
\* yargs may end the process before any command runs: last then is a call of
\* "yargs", with the usage as its error when yargs refused the command line.
\* Otherwise `watch` starts watching and returns, and any other command goes
\* through the switch statement and the output to process.exit. argv.file is
\* the <file> of yargs's command `check`: undefined after `--`.
Run(command, file, gitStatus, outputFormat, quiet, showMetrics, help, version, dashed) ==
    LET argvFile == IF dashed THEN Undefined ELSE file
        arg == IF command = "check-changed" THEN gitStatus ELSE argvFile
        parsed == yargs(command, file, outputFormat, help, version, dashed)
    IN IF parsed # Running
       THEN /\ exitCode = Running
            /\ ~watching
            /\ last = NoCall
            /\ exitCode' = parsed
            /\ last' = Call("yargs", arg,
                            [NoQuery(TheSession) EXCEPT
                                !.error = IF parsed = <<1>> THEN "usage" ELSE NoError],
                            dirty)
            /\ prev' = NoCall
            /\ dirty' = FALSE
            /\ UNCHANGED <<disk, optionVars, sessionVars, writes, calls, watchVars,
                           formatting>>
       ELSE IF command = "watch"
       THEN StartWatch(quiet)
       ELSE /\ exitCode = Running
            /\ ~watching
            /\ last = NoCall
            /\ \E out \in {runCommand(TheSession, config, disk, command, argvFile,
                                      gitStatus, 0)} :
                  /\ Adopt(out)
                  /\ \E t \in CheckTimes :
                        /\ last' = Call(command, arg, Timed(out, t), dirty)
                        /\ formatting' = Shows(Timed(out, t), outputFormat, quiet,
                                               showMetrics)
                  /\ exitCode' = <<exitCodeOf(out)>>
            /\ prev' = NoCall
            /\ dirty' = FALSE
            /\ UNCHANGED <<disk, optionVars, writes, calls, watchVars>>

\* the command line: one command on a project whose files may have been
\* rewritten since the session's start. The --output values are the choices
\* and "xml"; <file> may be missing; the command may be missing ("" stands
\* for undefined) or a word that is none ("lint"); the words may follow `--`.
NextCLI ==
    \/ Writes
    \/ \E o \in OutputFormats \cup {"xml"} : \E q, m, h, v, d \in BOOLEAN :
          \/ \E fp \in FileArgs \cup {Undefined} :
                Run("check", fp, <<>>, o, q, m, h, v, d)
          \/ \E g \in StatusOutputs : Run("check-changed", <<>>, g, o, q, m, h, v, d)
          \/ Run("check-all", <<>>, <<>>, o, q, m, h, v, d)
          \/ Run("watch", <<>>, <<>>, o, q, m, h, v, d)
          \/ \E c \in {"", "lint"} : Run(c, <<>>, <<>>, o, q, m, h, v, d)

SpecCLI == Init /\ [][NextCLI]_vars

\* Another process writes a watched file, with a new text or the one it has,
\* or deletes it: the file watcher has a notification for the watching
\* process, which gets it when its event loop is free. A write that comes
\* while updateProgram runs is marked in the build.
FileChanged(f, c) ==
    /\ watching
    /\ burst + notices < MaxBurst
    /\ cycles < MaxCycles
    /\ ~(c = NoFile /\ disk[f] = NoFile)
    /\ disk' = [disk EXCEPT ![f] = c]
    /\ notices' = notices + 1
    /\ flight' = IF flight.building THEN [flight EXCEPT !.queued = TRUE] ELSE flight
    /\ UNCHANGED <<optionVars, sessionVars, last, prev, dirty, exitCode, writes, calls,
                   watching, timer, burst, emitted, cycleOf, cycles, formatting>>

\* the event loop delivers a notification of the file watcher:
\* scheduleProgramUpdate (re)starts the update timer
Notified ==
    /\ watching
    /\ ~flight.building
    /\ notices > 0
    /\ notices' = notices - 1
    /\ timer' = TRUE
    /\ burst' = burst + 1
    /\ UNCHANGED <<disk, optionVars, sessionVars, last, prev, dirty, exitCode, writes, calls,
                   watching, emitted, cycleOf, cycles, flight, formatting>>

\* the update timer runs out: the program is rebuilt and reported
TimerFires ==
    /\ watching
    /\ timer
    /\ timer' = FALSE
    /\ LET c == Cycle(config, disk, cycleOf.quiet)
       IN /\ emitted' = c.printed
          /\ cycleOf' = [burst |-> burst, diagnostics |-> c.diagnostics,
                         errors |-> c.errors, quiet |-> cycleOf.quiet]
    /\ burst' = 0
    /\ cycles' = cycles + 1
    /\ UNCHANGED <<disk, optionVars, sessionVars, last, prev, dirty, exitCode, writes, calls,
                   watching, flight, notices, formatting>>

NextWatch ==
    \/ \E q \in BOOLEAN : StartWatch(q)
    \/ \E f \in Writable : \E c \in WrittenTo(f) : FileChanged(f, c)
    \/ Notified
    \/ TimerFires

SpecWatch == Constructed({"ok"}) /\ [][NextWatch]_vars

\* The update timer runs out and updateProgram starts: the program is built
\* from the disk as it is now. The event loop runs nothing else until
\* updateProgram returns.
BuildStarts ==
    /\ watching
    /\ timer
    /\ ~flight.building
    /\ timer' = FALSE
    /\ LET c == Cycle(config, disk, cycleOf.quiet)
       IN flight' = [flight EXCEPT !.building = TRUE,
                                   !.diagnostics = c.diagnostics,
                                   !.errors = c.errors,
                                   !.printed = c.printed]
    /\ UNCHANGED <<disk, optionVars, sessionVars, last, prev, dirty, exitCode, writes, calls,
                   watching, burst, emitted, cycleOf, cycles, notices, formatting>>

\* updateProgram reports the diagnostics of its program and returns; the event
\* loop is free for the notifications that wait
BuildEnds ==
    /\ watching
    /\ flight.building
    /\ emitted' = flight.printed
    /\ cycleOf' = [burst |-> burst, diagnostics |-> flight.diagnostics,
                   errors |-> flight.errors, quiet |-> cycleOf.quiet]
    /\ cycles' = cycles + 1
    /\ burst' = 0
    /\ flight' = [NoFlight EXCEPT !.late = flight.queued, !.done = flight.late]
    /\ UNCHANGED <<disk, optionVars, sessionVars, last, prev, dirty, exitCode, writes, calls,
                   watching, timer, notices, formatting>>

\* The onDiagnostic callback throws when reportDiagnostic calls it for the
\* first diagnostic of the build: nothing catches the exception in the timer
\* callback, and the process ends with the exit code of an uncaught exception.
BuildThrows ==
    /\ watching
    /\ flight.building
    /\ flight.printed # <<>>
    /\ emitted' = <<>>
    /\ cycleOf' = [burst |-> burst, diagnostics |-> flight.diagnostics,
                   errors |-> flight.errors, quiet |-> cycleOf.quiet]
    /\ cycles' = cycles + 1
    /\ watching' = FALSE
    /\ timer' = FALSE
    /\ burst' = 0
    /\ exitCode' = <<1>>
    /\ flight' = NoFlight
    /\ UNCHANGED <<disk, optionVars, sessionVars, last, prev, dirty, writes, calls, notices,
                   formatting>>

\* watch mode with the builds taking time
NextReactor ==
    \/ \E q \in BOOLEAN : StartWatch(q)
    \/ \E f \in Writable : \E c \in WrittenTo(f) : FileChanged(f, c)
    \/ Notified
    \/ BuildStarts
    \/ BuildEnds
    \/ BuildThrows

SpecReactor == Constructed({"ok"}) /\ [][NextReactor]_vars

(***************************************************************************)
(* OutputFormatter.format for the JSON format, on its own                  *)
(***************************************************************************)
\* the records of the formatter's inputs
SampleError ==
    [file |-> <<"t", "e", "s", "t", ".", "t", "s">>, line |-> 10, column |-> 5,
     code |-> <<"T", "S", "2", "3", "2", "2">>,
     message |-> "Type 'string' is not assignable to type 'number'.",
     severity |-> "error"]

SampleWarning ==
    [file |-> <<"t", "e", "s", "t", ".", "t", "s">>, line |-> 12, column |-> 1,
     code |-> <<"T", "S", "6", "1", "3", "3">>,
     message |-> "'x' is declared but its value is never read.",
     severity |-> "warning"]

SampleErrorLists ==
    {<<>>, <<SampleError>>, <<SampleWarning>>, <<SampleError, SampleWarning>>,
     <<SampleWarning, SampleError>>}

\* the results handed to the formatter: with a metrics block, and without
SampleResults ==
    {[errors |-> es] : es \in SampleErrorLists}
    \cup {CheckResult(es, n, t) : es \in SampleErrorLists, n \in {0, 1, 2}, t \in CheckTimes}

\* OutputFormatter.format(result, 'json', showMetrics)
Format(result, showMetrics) ==
    /\ formatting' = [result |-> result, showMetrics |-> showMetrics,
                      output |-> <<formatJSON(result, showMetrics)>>]
    /\ UNCHANGED <<disk, optionVars, sessionVars, last, prev, dirty, exitCode, writes, calls,
                   watchVars>>

NextFormat == \E r \in SampleResults : \E m \in BOOLEAN : Format(r, m)

SpecFormat == Constructed({"ok"}) /\ [][NextFormat]_vars

(***************************************************************************)
(* Properties of checkFile                                                 *)
(***************************************************************************)
\* the argument of the latest checkFile call names a file that is on disk,
\* as it is or relative to the project root
C1_OnDisk ==
    \E f \in Paths :
        /\ disk[f] # NoFile
        /\ f = last.arg \/ f = projectRoot \o <<"/">> \o last.arg

\* C1: for every path that does not exist on disk (a relative path resolved
\* against the project root), checkFile fails with the file-not-found error
\* and produces no CheckResult.
C1_MissingFileFails ==
    (last.op = "checkFile" /\ ~dirty /\ ~C1_OnDisk)
        => last.error = FileNotFound /\ last.result = <<>>

\* C1 happens: a.ts was deleted after the session was constructed with it, and
\* checkFile("a.ts") failed
C1_Witness ==
    /\ last.op = "checkFile" /\ last.arg = ArgA /\ ~dirty
    /\ disk[FileA] = NoFile
    /\ prog[FileA] # NotIn
    /\ last.error = FileNotFound

\* C3: two consecutive checkFile calls for the same file on one session, with
\* no write to the disk in between, return identical errors, filesChecked and
\* totalErrors; checkTime is free.
C3_Idempotent ==
    (/\ last.op = "checkFile" /\ prev.op = "checkFile"
     /\ last.arg = prev.arg
     /\ ~last.dirtyBefore
     /\ prev.result # <<>>)
        => /\ last.result # <<>>
           /\ last.result[1].errors = prev.result[1].errors
           /\ last.result[1].metrics.filesChecked = prev.result[1].metrics.filesChecked
           /\ last.result[1].metrics.totalErrors = prev.result[1].metrics.totalErrors

\* C3 happens: a.ts was checked after a write and then again, its snapshot
\* refreshed both times, and the second result has the same errors at another
\* checkTime
C3_Witness ==
    /\ last.op = "checkFile" /\ prev.op = "checkFile"
    /\ last.arg = ArgA /\ prev.arg = ArgA
    /\ prev.dirtyBefore /\ ~last.dirtyBefore
    /\ files[FileA].version = 2
    /\ last.result # <<>> /\ prev.result # <<>>
    /\ Len(last.result[1].errors) >= 2
    /\ last.result[1].metrics.checkTime = 7

(***************************************************************************)
(* Properties of the records of a result                                   *)
(***************************************************************************)
\* C4: every record of every result returned by checkFile, checkChangedFiles
\* or checkAll has line >= 1, column >= 1, a non-empty code and a severity of
\* error or warning.
C4_RecordsWellFormed ==
    last.result # <<>> =>
        \A i \in 1..Len(last.result[1].errors) :
            LET e == last.result[1].errors[i]
            IN /\ e.line >= 1
               /\ e.column >= 1
               /\ e.code # <<>>
               /\ e.severity \in {"error", "warning"}

\* C4 happens: checkChangedFiles returned records of two files, one on the
\* second line of its file and one a warning
C4_Witness ==
    /\ last.op = "checkChangedFiles"
    /\ last.result # <<>>
    /\ \E i, j \in 1..Len(last.result[1].errors) :
          /\ last.result[1].errors[i].line = 2
          /\ last.result[1].errors[i].severity = "error"
          /\ last.result[1].errors[j].severity = "warning"
          /\ last.result[1].errors[j].file # last.result[1].errors[i].file

(***************************************************************************)
(* Properties of the command line                                          *)
(***************************************************************************)
\* the query could not run: it threw, or the project has no usable
\* configuration
C2_CouldNotRun == last.error # NoError \/ ~ConfigRead(config)

\* C2: for every run of check, check-changed and check-all (a command line
\* that yargs handed on to the command) the exit code is 0 exactly when the
\* query returned a result with an empty errors list, 1 exactly when it
\* returned a result with at least one record, and 2 exactly when the query
\* could not run (missing file, bad configuration, version control
\* unavailable).
C2_ExitCodes ==
    (exitCode # Running /\ last.op \in Commands) =>
        /\ (exitCode[1] = 0) <=>
              (~C2_CouldNotRun /\ last.result # <<>> /\ last.result[1].errors = <<>>)
        /\ (exitCode[1] = 1) <=>
              (~C2_CouldNotRun /\ last.result # <<>> /\ last.result[1].errors # <<>>)
        /\ (exitCode[1] = 2) <=> C2_CouldNotRun

(***************************************************************************)
(* Properties of checkChangedFiles                                         *)
(***************************************************************************)
\* the status output has a line that ends with the name of f relative to the
\* project root
C5_Named(status, f) ==
    /\ SubSeq(f, 1, 3) = projectRoot \o <<"/">>
    /\ Includes(status, <<" ">> \o SubSeq(f, 4, Len(f)) \o <<"\n">>)

\* C5: checkChangedFiles hands to checkFile only entries of the status output
\* that have the extension .ts or .tsx.
C5_OnlyStatusEntries ==
    last.op = "checkChangedFiles" =>
        \A i \in 1..Len(last.passed) :
            LET f == last.passed[i]
            IN /\ C5_Named(last.arg, f)
               /\ \/ SubSeq(f, Len(f) - 2, Len(f)) = <<".", "t", "s">>
                  \/ SubSeq(f, Len(f) - 3, Len(f)) = <<".", "t", "s", "x">>

\* C5 happens: the status names a.ts, b.tsx, c.ts and r.md, all on disk while
\* x.ts, also there, is not named; the three source files were handed over
C5_Witness ==
    /\ last.op = "checkChangedFiles" /\ last.arg = StatusMixed
    /\ disk[FileR] # NoFile /\ disk[FileX] # NoFile
    /\ last.passed = <<FileA, FileB, FileC>>

\* C6: checkChangedFiles never counts a file twice: filesChecked is at most
\* the number of distinct files checked, and no record appears twice in the
\* result.
C6_NoDoubleCount ==
    (last.op = "checkChangedFiles" /\ last.result # <<>>) =>
        /\ last.result[1].metrics.filesChecked
              <= Cardinality({last.passed[i] : i \in 1..Len(last.passed)})
        /\ \A i, j \in 1..Len(last.result[1].errors) :
              i < j => last.result[1].errors[i] # last.result[1].errors[j]

\* C7: filesChecked of checkChangedFiles is the number of candidates that
\* checkFile processed to completion: the candidates that are on disk and are
\* source files of the project's program.
C7_CountsProcessed ==
    (last.op = "checkChangedFiles" /\ last.result # <<>> /\ ~dirty) =>
        LET cand == changedFiles(last.arg)
        IN /\ last.result[1].metrics.filesChecked = Len(last.done)
           /\ last.result[1].metrics.filesChecked =
                 Cardinality({i \in 1..Len(cand) :
                                 /\ cand[i] \in Paths
                                 /\ disk[cand[i]] # NoFile
                                 /\ prog[cand[i]] # NotIn})

\* C7 happens: of the candidates a.ts, b.tsx and c.ts the first is not on disk
\* and the last is outside the configuration's files; one file is counted
C7_Witness ==
    /\ last.op = "checkChangedFiles" /\ last.arg = StatusMixed /\ ~dirty
    /\ disk[FileA] = NoFile
    /\ last.passed = <<FileB, FileC>>
    /\ last.done = <<FileB>>
    /\ last.result # <<>>
    /\ last.result[1].metrics.filesChecked = 1

(***************************************************************************)
(* Properties of checkAll                                                  *)
(***************************************************************************)
\* C8: filesChecked of checkAll counts exactly the source files of the program
\* that are user files: not under node_modules, not a library file, not a
\* declaration file, and inside the project root directory.
C8_CountsUserFiles ==
    (last.op = "checkAll" /\ last.result # <<>>) =>
        last.result[1].metrics.filesChecked =
            Cardinality({f \in SourceFiles(prog) :
                            /\ SubSeq(f, 1, 3) = projectRoot \o <<"/">>
                            /\ f # LibFile
                            /\ ~EndsWith(f, <<".", "d", ".", "t", "s">>)})

(***************************************************************************)
(* Properties of watch mode                                                *)
(***************************************************************************)
\* C9: a settled burst of file changes, of one write or of several, makes
\* watch mode emit exactly one event.
C9_OneEventPerBurst ==
    (watching /\ ~timer /\ cycleOf.burst >= 1 /\ ~cycleOf.quiet) => Len(emitted) = 1

\* C10: every completed check cycle of watch mode emits exactly one event,
\* which carries the errors of the whole cycle and a metrics block, also when
\* there are no errors.
C10_OneResultPerCycle ==
    (watching /\ cycles >= 1 /\ ~cycleOf.quiet) =>
        /\ Len(emitted) = 1
        /\ emitted[1].errors = cycleOf.errors
        /\ "metrics" \in DOMAIN emitted[1]

(***************************************************************************)
(* Properties of every CheckResult                                         *)
(***************************************************************************)
\* C11: in every CheckResult returned by checkFile, checkChangedFiles and
\* checkAll, metrics.totalErrors is the length of the errors list.
C11_TotalErrorsIsLength ==
    last.result # <<>> =>
        last.result[1].metrics.totalErrors = Len(last.result[1].errors)

\* C11 happens: checkAll returned at least two records and counted a number
\* of files that differs from the number of records
C11_Witness ==
    /\ last.op = "checkAll"
    /\ last.result # <<>>
    /\ Len(last.result[1].errors) >= 2
    /\ last.result[1].metrics.filesChecked # Len(last.result[1].errors)

\* the diagnostics the compiler returned to the latest call: for checkFile the
\* syntactic ones of the file and then its semantic ones, for checkAll the
\* pre-emit diagnostics of the program
C12_Diagnostics ==
    IF last.op = "checkFile"
    THEN getSyntacticDiagnostics(prog, absolutePath(last.arg))
         \o getSemanticDiagnostics(prog, absolutePath(last.arg))
    ELSE getPreEmitDiagnostics(prog, config)

\* those of them with a source file and category Error or Warning, in order
C12_Kept ==
    SelectSeq(C12_Diagnostics,
              LAMBDA d : d.file # NoFile /\ d.category \in {"Error", "Warning"})

\* C12: the errors of checkFile and checkAll are exactly the records of the
\* diagnostics that carry a source file and have category Error or Warning,
\* in the order the compiler returned them (for checkFile the syntactic ones
\* before the semantic ones); a diagnostic without a file gives no record.
C12_ErrorsAreTheDiagnostics ==
    (last.op \in {"checkFile", "checkAll"} /\ last.result # <<>>) =>
        /\ Len(last.result[1].errors) = Len(C12_Kept)
        /\ \A i \in 1..Len(C12_Kept) :
              LET e == last.result[1].errors[i]
                  d == C12_Kept[i]
              IN /\ e = formatDiagnostic(prog, d)
                 /\ e.code = <<"T", "S">> \o NumToString(d.code)
                 /\ e.message = d.messageText
                 /\ e.severity = (IF d.category = "Error" THEN "error" ELSE "warning")

\* C12 happens: checkAll got five diagnostics, one without a file and one of
\* category Message, and returned the records of the other three
C12_Witness ==
    /\ last.op = "checkAll" /\ config = "conflict"
    /\ Len(C12_Diagnostics) = 5
    /\ \E i \in 1..5 : C12_Diagnostics[i].file = NoFile
    /\ \E i \in 1..5 : C12_Diagnostics[i].category = "Message"
    /\ Len(last.result[1].errors) = 3

(***************************************************************************)
(* Properties of the JSON output                                           *)
(***************************************************************************)
\* C13: the JSON output of a CheckResult has a metrics key exactly when
\* metrics were requested and the result has metrics; the errors list is
\* output unchanged, with showMetrics false too.
C13_MetricsWhenRequested ==
    formatting.output # <<>> =>
        /\ ("metrics" \in DOMAIN formatting.output[1])
              <=> (formatting.showMetrics /\ "metrics" \in DOMAIN formatting.result)
        /\ "metrics" \in DOMAIN formatting.output[1]
              => formatting.output[1].metrics = formatting.result.metrics
        /\ "errors" \in DOMAIN formatting.output[1]
        /\ formatting.output[1].errors = formatting.result.errors

\* C13 happens: a result with one error and a metrics block was formatted
\* without showMetrics, and the output has the error and no metrics
C13_Witness ==
    /\ formatting.output # <<>>
    /\ ~formatting.showMetrics
    /\ "metrics" \in DOMAIN formatting.result
    /\ formatting.result.errors = <<SampleError>>
    /\ DOMAIN formatting.output[1] = {"errors"}

(***************************************************************************)
(* More properties of checkAll                                             *)
(***************************************************************************)
\* C14: no record of a checkAll result names a library or dependency file:
\* its file path contains neither "lib." nor "node_modules".
C14_NoLibraryRecords ==
    (last.op = "checkAll" /\ last.result # <<>>) =>
        \A i \in 1..Len(last.result[1].errors) :
            LET file == last.result[1].errors[i].file
            IN /\ ~Includes(file, <<"l", "i", "b", ".">>)
               /\ ~Includes(file, <<"n", "o", "d", "e", "_", "m", "o", "d", "u", "l", "e", "s">>)

(***************************************************************************)
(* Properties of construction                                              *)
(***************************************************************************)
\* C15: when tsconfig.json is absent or unparsable, construction fails: no
\* session with a program exists afterwards and no query returns a result.
C15_NoDegradedSession ==
    ~ConfigRead(config) =>
        /\ SourceFiles(prog) = {}
        /\ last.result = <<>>

(***************************************************************************)
(* More properties of checkChangedFiles                                    *)
(***************************************************************************)
\* C16: when git status fails, checkChangedFiles fails with the
\* not-a-git-repository error, hands no file to checkFile and returns no
\* CheckResult.
C16_NoStatusFails ==
    (last.op = "checkChangedFiles" /\ last.arg = GitFailed) =>
        /\ last.error = NotAGitRepository
        /\ last.result = <<>>
        /\ last.passed = <<>>
        /\ last.done = <<>>

\* C16 happens: git status failed in a project whose a.ts has errors, after a
\* write to the disk
C16_Witness ==
    /\ last.op = "checkChangedFiles" /\ last.arg = GitFailed
    /\ last.dirtyBefore
    /\ disk[FileA] = Bad
    /\ last.error = NotAGitRepository

\* the candidates that are on the disk dsk
C17_There(cand, dsk) == SelectSeq(cand, LAMBDA f : Exists(dsk, f))

\* C17: a candidate outside the program is skipped by checkChangedFiles: the
\* call goes on to the candidates after it, never fails with the compiler's
\* could-not-find-source-file error and returns a result when nothing else is
\* thrown; any other exception of checkFile ends the call at that candidate,
\* with that exception and no result.
C17_SkipsOutOfScopeOnly ==
    [][(calls' = calls + 1 /\ last'.op = "checkChangedFiles" /\ last'.arg # GitFailed) =>
        LET there == C17_There(changedFiles(last'.arg), disk)
            n == Len(last'.passed)
        IN /\ last'.error # CouldNotFindSourceFile
           /\ last'.passed = SubSeq(there, 1, n)
           /\ \A i \in 1..n :
                 prog'[there[i]] = NotIn =>
                    \A j \in 1..Len(last'.done) : last'.done[j] # there[i]
           /\ last'.error = NoError =>
                 /\ last'.result # <<>>
                 /\ n = Len(there)
           /\ last'.error # NoError =>
                 /\ last'.result = <<>>
                 /\ n > 0
                 /\ disk'[there[n]] = NoFile
                 /\ \A i \in 1..(n - 1) : there[i] # there[n]
                 /\ \A j \in 1..Len(last'.done) : last'.done[j] # there[n]
       ]_vars

\* C17 happens: with tsconfig.json excluding c.ts, the candidates are a.ts,
\* b.tsx and c.ts: c.ts is handed to checkFile and skipped, and the result of
\* the call counts the two others
C17_Witness ==
    /\ last.op = "checkChangedFiles" /\ last.arg = StatusMixed
    /\ config = "ok"
    /\ last.error = NoError
    /\ last.passed = <<FileA, FileB, FileC>>
    /\ last.done = <<FileA, FileB>>
    /\ prog[FileC] = NotIn
    /\ last.result # <<>>
    /\ last.result[1].metrics.filesChecked = 2

(***************************************************************************)
(* Properties of the versions the host reports                             *)
(***************************************************************************)
\* what the host answered for the path f when the program of the session was
\* built: the snapshot the program holds, undefined for a file the program
\* looked for and did not get
C18_ServedBefore(f) ==
    IF prog[f] # NotIn THEN prog[f].content ELSE Undefined

\* the program asked the host for the path f
C18_Asked(f) == prog[f] # NotIn \/ f \in MissingFilePaths(TheSession)

\* the number the host reports as the version of f
C18_ReportedBefore(f) == IF files[f] # NoEntry THEN files[f].version ELSE 0

\* C18: when the refresh of checkFile changes the content the host serves for
\* a path, the version the host reports for the path afterwards is strictly
\* greater than the one it reported before; for a path the refresh stores for
\* the first time, the version before is the default one.
C18_VersionRises ==
    [][\A f \in Paths :
          (/\ calls' = calls + 1
           /\ last'.op = "checkFile"
           /\ f = absolutePath(last'.arg)
           /\ files'[f] # files[f]
           /\ C18_Asked(f)
           /\ files'[f].content # C18_ServedBefore(f))
              => files'[f].version > C18_ReportedBefore(f)
      ]_vars

\* the program of the session st asked the host for the path f
C19_Asked(st, f) == st.prog[f] # NotIn \/ f \in MissingFilePaths(st)

\* what the host answered then: the snapshot the program holds, undefined for
\* a file the program did not get
C19_Served(st, f) == IF st.prog[f] # NotIn THEN st.prog[f].content ELSE Undefined

\* C19: the host never serves two different snapshots of a path (two texts,
\* or a text and undefined) under the same reported version: when a step
\* rebuilds the program and the host reports for a path the version it
\* reported before, it serves what it served before.
C19_OneSnapshotPerVersion ==
    [][\A f \in Paths :
          (/\ C19_Asked(TheSession, f)
           /\ C19_Asked(Session(files', prog', roots'), f)
           /\ getScriptVersion(files', f) = getScriptVersion(files, f))
              => C19_Served(Session(files', prog', roots'), f) = C19_Served(TheSession, f)
      ]_vars

(***************************************************************************)
(* Properties of the refresh of checkFile                                  *)
(***************************************************************************)
\* C20: once checkFile has refreshed a file that is on disk, the store holds
\* for its path the text the file has on disk, at a version one above the one
\* it held before (at version 0 when it held none), whatever the text is, the
\* empty one included.
C20_RefreshStoresDisk ==
    [][\A f \in Paths :
          (/\ calls' = calls + 1
           /\ last'.op = "checkFile"
           /\ f = absolutePath(last'.arg)
           /\ last'.error # FileNotFound)
              => /\ files'[f] # NoEntry
                 /\ files'[f].content = disk'[f]
                 /\ files'[f].version =
                       IF files[f] # NoEntry THEN files[f].version + 1 ELSE 0
      ]_vars

(***************************************************************************)
(* Properties of the order of the records                                  *)
(***************************************************************************)
\* C21: the errors of every CheckResult are grouped by file: the records of
\* one file are contiguous, so that the files come in the order in which they
\* are first met.
C21_GroupedByFile ==
    last.result # <<>> =>
        LET errors == last.result[1].errors
        IN \A i, j, k \in 1..Len(errors) :
              (i < j /\ j < k /\ errors[i].file = errors[k].file)
                 => errors[j].file = errors[i].file

\* C22: a file change that arrives while a check is in flight does not
\* interrupt it, and is not lost: the check completes, a new cycle is started
\* for the change, and that cycle emits its own event.
C22_LateChangeReported ==
    /\ flight.queued => flight.building
    /\ (watching /\ flight.done /\ ~cycleOf.quiet) => Len(emitted) >= 1

\* C23: an exception raised during a check cycle does not end watching: once
\* watch mode has started, the process keeps running and watching.
C23_WatchSurvives ==
    cycles >= 1 => (watching /\ exitCode = Running)

(***************************************************************************)
(* Properties of the freshness of the results                              *)
(***************************************************************************)
\* what the latest query returns on a session constructed now: every snapshot
\* read from the disk as it is
C24_FromDisk ==
    LET fresh == Construct(config, disk)
    IN IF last.op = "checkFile"
       THEN checkFile(fresh, config, disk, last.arg, 0).result
       ELSE checkAll(fresh, config, disk, 0).result

\* C24: with noCache set, a query re-reads every snapshot from disk: its
\* errors are those of the disk at the time of the query, never those of
\* content stored before.
C24_NoCacheRereads ==
    (noCache /\ ~dirty /\ last.op \in {"checkFile", "checkAll"} /\ last.result # <<>>)
        => /\ C24_FromDisk # <<>>
           /\ last.result[1].errors = C24_FromDisk[1].errors

(***************************************************************************)
(* Properties of the snapshot store                                        *)
(***************************************************************************)
\* C25: checkAll leaves every snapshot of the store as it is: a path the store
\* holds before the call has the same version and content after it; checkAll
\* only adds paths.
C25_CheckAllKeepsSnapshots ==
    [][(calls' = calls + 1 /\ last'.op = "checkAll") =>
          \A f \in Paths : files[f] # NoEntry => files'[f] = files[f]
      ]_vars

\* C25 happens: a.ts was rewritten on disk and checkAll has returned; the
\* store holds for a.ts the text and version it held, not the text on disk
C25_Witness ==
    /\ last.op = "checkAll" /\ last.dirtyBefore /\ ~dirty
    /\ disk[FileA] # NoFile
    /\ files[FileA] # NoEntry
    /\ files[FileA].version = 0
    /\ files[FileA].content # disk[FileA]

\* C26: over any sequence of operations on one session, the version the store
\* holds for a path never decreases, and a path the store holds is never
\* removed from it.
C26_StoreOnlyGrows ==
    [][\A f \in Paths :
          files[f] # NoEntry =>
             /\ files'[f] # NoEntry
             /\ files'[f].version >= files[f].version
      ]_vars

\* C26 happens: a.ts was refreshed twice and then deleted from the disk; the
\* store still holds it, at version 2
C26_Witness ==
    /\ disk[FileA] = NoFile
    /\ dirty
    /\ files[FileA] # NoEntry
    /\ files[FileA].version = 2

\* C27: the diagnostics of a query are computed from the text that every
\* source file of the program has on disk at the time of the query, not only
\* the file the query names: once checkFile or checkAll has returned, the
\* program holds each of its source files with the text the file has on disk.
C27_ProgramIsTheDisk ==
    (~dirty /\ last.op \in {"checkFile", "checkAll"} /\ last.result # <<>>) =>
        \A f \in SourceFiles(prog) : prog[f].content = disk[f]

\* C28: a checkFile call that fails with file-not-found leaves the snapshot
\* store as it was: no path is added, no version or content is changed.
C28_FailureKeepsStore ==
    [][(calls' = calls + 1 /\ last'.op = "checkFile" /\ last'.error = FileNotFound)
          => files' = files
      ]_vars

\* C28 happens: a.ts, held by the store, was deleted from the disk and
\* checkFile("a.ts") has failed; the store holds a.ts as before
C28_Witness ==
    /\ last.op = "checkFile" /\ last.arg = ArgA
    /\ last.error = FileNotFound
    /\ last.dirtyBefore
    /\ disk[FileA] = NoFile
    /\ files[FileA] # NoEntry
    /\ files[FileA].content # Undefined

(***************************************************************************)
(* Properties of checkChangedFiles under concurrent deletions              *)
(***************************************************************************)
\* C29: checkChangedFiles never fails with the file-not-found error: a
\* candidate removed from the disk between the existence test of the loop and
\* the one of checkFile is skipped like a candidate that was not there.
C29_NeverFileNotFound ==
    last.op = "checkChangedFiles" => last.error # FileNotFound

(***************************************************************************)
(* Properties of the severity of the records                               *)
(***************************************************************************)
\* the diagnostics of the latest watch cycle that have a file and category
\* Error or Warning, in order
C30_Kept ==
    SelectSeq(cycleOf.diagnostics, LAMBDA d : d.file # NoFile /\ IsReported(d))

\* C30: a record has severity error only for a diagnostic of category Error
\* and severity warning only for one of category Warning, and a diagnostic of
\* another category gives no record; for the watch-mode callback: the results
\* of a cycle are the records of its Error and Warning diagnostics, one each.
C30_SeverityIsCategory ==
    (watching /\ cycles >= 1) =>
        /\ Len(emitted) = Len(C30_Kept)
        /\ \A i \in 1..Len(emitted) :
              /\ Len(emitted[i].errors) = 1
              /\ i <= Len(C30_Kept) =>
                    emitted[i].errors[1].severity =
                       (IF C30_Kept[i].category = "Error" THEN "error" ELSE "warning")

====
